---- MODULE Spec2Model ----
(***************************************************************************)
(* Ring simulator (lexuzieel/rings): the marker placement, the surface     *)
(* (picture-in-picture, PIP) camera pose and the click picking of          *)
(* class RingSimulator, as a state machine over the settings record.       *)
(*                                                                         *)
(* Arithmetic.  The program computes in floating point.  The model         *)
(* computes exactly, on angles whose sine and cosine are rational:         *)
(*   - an angle in degrees is an integer number of 1/DegUnit degrees, an   *)
(*     angle in radians an integer number of 1/RadUnit radians, a length   *)
(*     an integer number of 1/LenUnit km;                                  *)
(*   - Math.sin / Math.cos are read from TrigTable, whose entries are      *)
(*     exact points (c/d, s/d) of the unit circle, at the table angle      *)
(*     nearest to the argument; Math.acos / Math.atan2 read the table      *)
(*     backwards;                                                          *)
(*   - a vector is len * (x, y, z) / (den * sqrt(rad)) with integer x, y,  *)
(*     z, den, rad: this holds every vector the program builds from table  *)
(*     angles, including normalized cross products.                        *)
(*                                                                         *)
(* A value that a step of the code computes once and reads several times   *)
(* is passed as an operator parameter, so that it is computed once here    *)
(* too.                                                                    *)
(***************************************************************************)
EXTENDS Integers, Sequences, FiniteSets, TLC

\* ------------------------------------------------------------------ units

DegUnit == 10000

RadUnit == 10000

LenUnit == 10000

\* Math.PI and 2 * Math.PI in 1/RadUnit radians
Pi == 31416

TwoPi == 2 * Pi

\* src line 7: EARTH_RADIUS = 6371 (km)
EARTH_RADIUS == 6371

\* src line 1181: surfaceOffset = 1.02, in hundredths
surfaceOffset == 102

\* ------------------------------------------------------- integer helpers

Abs(a) == IF a < 0 THEN -a ELSE a

Sign(a) == IF a < 0 THEN -1 ELSE IF a > 0 THEN 1 ELSE 0

Min(a, b) == IF a < b THEN a ELSE b

Max(a, b) == IF a > b THEN a ELSE b

RECURSIVE GcdNat(_, _)
GcdNat(a, b) == IF b = 0 THEN a ELSE GcdNat(b, a % b)

Gcd(a, b) == GcdNat(Abs(a), Abs(b))

Lcm(a, b) == (a \div Gcd(a, b)) * b

\* floor of the square root of n >= 0, by bisection on lo..hi
RECURSIVE SqrtIn(_, _, _)
SqrtIn(n, lo, hi) ==
    IF lo >= hi THEN lo
    ELSE IF (lo + hi + 1) \div 2 <= n \div ((lo + hi + 1) \div 2)
    THEN SqrtIn(n, (lo + hi + 1) \div 2, hi)
    ELSE SqrtIn(n, lo, (lo + hi + 1) \div 2 - 1)

ISqrt(n) == IF n <= 0 THEN 0 ELSE SqrtIn(n, 1, Min(n, 46340))

\* the largest k with k * k dividing n (n >= 1): sqrt(n) = k * sqrt(n / k^2).
\* Trial division by p = 2, 3, ...; once p^3 > n, what is left of n is 1, a
\* prime, a product of two primes or the square of a prime.
RootIfSquare(n, r) == IF r * r = n THEN r ELSE 1

RECURSIVE SquarePartFrom(_, _)
SquarePartFrom(n, p) ==
    IF p > n \div (p * p)
    THEN RootIfSquare(n, ISqrt(n))
    ELSE IF n % (p * p) = 0 THEN p * SquarePartFrom(n \div (p * p), p)
    ELSE IF n % p = 0 THEN SquarePartFrom(n \div p, p + 1)
    ELSE SquarePartFrom(n, p + 1)

SquarePart(n) == SquarePartFrom(n, 2)

\* ------------------------------------------------------------ trigonometry

\* One entry per table angle: its measure in degrees and in radians (in the
\* model's units, degrees in (-180, 180], radians in [0, 2 pi)) and the exact
\* point (c/d, s/d) of the unit circle at which the model evaluates its
\* cosine and sine.  The table holds
\*   - the quarter turns and the angles of the 3-4-5 triangle, two of which
\*     stand for Tokyo's colatitude 54.3167 and longitude -139.7667;
\*   - +-22.62 degrees (5-12-13), at which the default earthTilt of 23.5
\*     degrees is evaluated, and 10.39 and 169.61 degrees (11-60-61), at
\*     which the limits 10 and 170 of the PIP tilt are evaluated;
\*   - the colatitude (90 - latitude) and the longitude of every other
\*     catalogue entry of src/locations.ts, each at a rational point of its
\*     own within 6 degrees of it;
\*   - -138.89 and -136.40 degrees, longitudes 0.9 and 3.4 degrees away from
\*     Tokyo's.
\* The entries are in the order of their angles around the circle, which is
\* the order of their points, so that acos and atan2 of a point of the table
\* give back the angle of its entry.
TrigTable ==
    << [deg |->        0, rad |->     0, c |->   1, s |->   0, d |->   1],
       [deg |->   103889, rad |->  1813, c |->  60, s |->  11, d |->  61],
       [deg |->   219426, rad |->  3830, c |->  35, s |->  12, d |->  37],
       [deg |->   226199, rad |->  3948, c |->  12, s |->   5, d |->  13],
       [deg |->   258534, rad |->  4512, c |->  80, s |->  39, d |->  89],
       [deg |->   368699, rad |->  6435, c |->   4, s |->   3, d |->   5],
       [deg |->   431729, rad |->  7535, c |->  21, s |->  20, d |->  29],
       [deg |->   492872, rad |->  8602, c |->  48, s |->  55, d |->  73],
       [deg |->   543167, rad |->  9480, c |->   3, s |->   4, d |->   5],
       [deg |->   620119, rad |-> 10823, c |->   8, s |->  15, d |->  17],
       [deg |->   647952, rad |-> 11309, c |->  36, s |->  77, d |->  85],
       [deg |->   740061, rad |-> 12917, c |->   7, s |->  24, d |->  25],
       [deg |->   900000, rad |-> 15708, c |->   0, s |->   1, d |->   1],
       [deg |->  1125440, rad |-> 19643, c |->  -5, s |->  12, d |->  13],
       [deg |->  1238688, rad |-> 21619, c |-> -28, s |->  45, d |->  53],
       [deg |->  1239249, rad |-> 21629, c |-> -60, s |->  91, d |-> 109],
       [deg |->  1268699, rad |-> 22143, c |->  -3, s |->   4, d |->   5],
       [deg |->  1431301, rad |-> 24981, c |->  -4, s |->   3, d |->   5],
       [deg |->  1696111, rad |-> 29603, c |-> -60, s |->  11, d |->  61],
       [deg |->  1800000, rad |-> 31416, c |->  -1, s |->   0, d |->   1],
       [deg |-> -1512093, rad |-> 36441, c |-> -15, s |->  -8, d |->  17],
       [deg |-> -1397667, rad |-> 38438, c |->  -4, s |->  -3, d |->   5],
       [deg |-> -1388879, rad |-> 38591, c |-> -55, s |-> -48, d |->  73],
       [deg |-> -1363972, rad |-> 39026, c |-> -21, s |-> -20, d |->  29],
       [deg |-> -1268699, rad |-> 40689, c |->  -3, s |->  -4, d |->   5],
       [deg |->  -900000, rad |-> 47124, c |->   0, s |->  -1, d |->   1],
       [deg |->  -869250, rad |-> 47661, c |->  13, s |-> -84, d |->  85],
       [deg |->  -552708, rad |-> 53185, c |->  28, s |-> -45, d |->  53],
       [deg |->  -531301, rad |-> 53559, c |->   3, s |->  -4, d |->   5],
       [deg |->  -368699, rad |-> 56397, c |->   4, s |->  -3, d |->   5],
       [deg |->  -226199, rad |-> 58884, c |->  12, s |->  -5, d |->  13],
       [deg |->  -184241, rad |-> 59616, c |->  35, s |-> -12, d |->  37] >>

TrigIdx == 1..Len(TrigTable)

\* distance between two angles on a circle of the given circumference
CircDist(a, b, turn) ==
    LET shorter(m) == Min(m, turn - m)
    IN  shorter((a - b) % turn)

\* of two indices i < j, the one with the smaller of the distances dists
\* (the first one when they are equal)
Nearer(dists, i, j) == IF dists[j] < dists[i] THEN j ELSE i

\* the index, among the entries lo..hi, of the least of the distances dists
\* (the first such one in table order)
RECURSIVE NearestFrom(_, _, _)
NearestFrom(dists, lo, hi) ==
    IF lo = hi THEN lo
    ELSE Nearer(dists, NearestFrom(dists, lo, (lo + hi) \div 2),
                NearestFrom(dists, (lo + hi) \div 2 + 1, hi))

\* the table entry with the least of the distances dists[i]
NearestEntry(dists) == TrigTable[NearestFrom(dists, 1, Len(TrigTable))]

\* Math.cos / Math.sin of MathUtils.degToRad(x), x in 1/DegUnit degrees
TrigDeg(x) ==
    NearestEntry([i \in TrigIdx |-> CircDist(x, TrigTable[i].deg, 360 * DegUnit)])

\* Math.cos / Math.sin of x, x in 1/RadUnit radians
TrigRad(x) ==
    NearestEntry([i \in TrigIdx |-> CircDist(x, TrigTable[i].rad, TwoPi)])

\* ---------------------------------------------------------------- vectors

ZeroVec == [x |-> 0, y |-> 0, z |-> 0, den |-> 1, rad |-> 1, len |-> 0]

\* THREE.Vector3.  [x, y, z, den, rad, len] is the vector
\* (len / LenUnit) * (x, y, z) / (den * sqrt(rad)); Vec keeps it in lowest
\* terms with a non-negative len, so equal vectors are equal records.
Vec(x, y, z, den, rad, len) ==
    LET reduced(g, sg) ==
            [x |-> sg * (x \div g), y |-> sg * (y \div g), z |-> sg * (z \div g),
             den |-> den \div g, rad |-> rad, len |-> Abs(len)]
    IN  IF (x = 0 /\ y = 0 /\ z = 0) \/ len = 0
        THEN ZeroVec
        ELSE reduced(Gcd(Gcd(x, y), Gcd(z, den)), Sign(len))

IsZero(v) == v.x = 0 /\ v.y = 0 /\ v.z = 0

AxisX == [x |-> 1, y |-> 0, z |-> 0, den |-> 1, rad |-> 1, len |-> LenUnit]

AxisY == [x |-> 0, y |-> 1, z |-> 0, den |-> 1, rad |-> 1, len |-> LenUnit]

\* the integer part of a dot product: a.b = Dot3(a, b) / (dens, rads, lens)
Dot3(a, b) == a.x * b.x + a.y * b.y + a.z * b.z

SumSq(v) == Dot3(v, v)

\* whether (x, y, z) / (den * sqrt(rad)) has length 1, so that the vector's
\* length is len
IsUnitDir(v) == SumSq(v) = v.den * v.den * v.rad

\* pairwise coprime moduli whose squares fit the integers and whose product
\* exceeds every sum of squares of components below 10^8
UnitModuli == {46337, 46327, 46309, 46307}

\* a * b modulo m
MulMod(a, b, m) == ((a % m) * (b % m)) % m

\* Vector3.length() = len / LenUnit: x^2 + y^2 + z^2 = den^2 * rad, compared
\* modulo each of the moduli, which decides it for components of any size
\* the vectors take
HasUnitDirection(v) ==
    \A m \in UnitModuli :
        (MulMod(v.x, v.x, m) + MulMod(v.y, v.y, m) + MulMod(v.z, v.z, m)) % m
            = MulMod(MulMod(v.den, v.den, m), v.rad, m)

\* the direction of the integer vector (px, py, pz) with px^2 + py^2 + pz^2 =
\* n2: (px, py, pz) / (k * sqrt(n2 / k^2)) for the square part k of n2
unitOver(px, py, pz, n2) ==
    LET rooted(k) == Vec(px, py, pz, k, n2 \div (k * k), LenUnit)
    IN  rooted(SquarePart(n2))

\* Vector3.normalize(): the vector divided by its length; the zero vector
\* stays zero (three.js divides by length || 1).
normalize(v) ==
    LET direction(px, py, pz) == unitOver(px, py, pz, px * px + py * py + pz * pz)
        primitive(g) == direction(v.x \div g, v.y \div g, v.z \div g)
    IN  IF IsZero(v) THEN ZeroVec ELSE primitive(Gcd(Gcd(v.x, v.y), v.z))

\* Vector3.multiplyScalar(k), k in 1/LenUnit, of a vector of length 1
multiplyScalar(v, k) ==
    Vec(v.x, v.y, v.z, v.den, v.rad, (v.len \div LenUnit) * k + ((v.len % LenUnit) * k) \div LenUnit)

\* Vector3.length() in 1/LenUnit, for a scaled unit direction
length(v) == IF IsZero(v) THEN 0 ELSE v.len

\* new Vector3().crossVectors(a, b).normalize() for unit vectors a, b.  The
\* cross product of perpendicular unit vectors is a unit vector already
\* (Lagrange's identity), which gives its length without squaring its
\* components; otherwise the length is computed as normalize() does.
crossVectorsNormalized(a, b) ==
    LET perpendicular(cx, cy, cz, k) ==
            Vec(cx, cy, cz, a.den * b.den * k, (a.rad * b.rad) \div (k * k), LenUnit)
        normalized(cx, cy, cz) ==
            IF cx = 0 /\ cy = 0 /\ cz = 0 THEN ZeroVec
            ELSE IF Dot3(a, b) = 0
            THEN perpendicular(cx, cy, cz, SquarePart(a.rad * b.rad))
            ELSE normalize(Vec(cx, cy, cz, 1, 1, LenUnit))
    IN  normalized(a.y * b.z - a.z * b.y, a.z * b.x - a.x * b.z, a.x * b.y - a.y * b.x)

\* new Vector3().addScaledVector(a, sa / d).addScaledVector(b, sb / d)
\* .normalize() for unit vectors a, b.  For perpendicular a, b of the same
\* rad and sa^2 + sb^2 = d^2 the sum is a unit vector already.
addScaledNormalized(a, sa, b, sb, d) ==
    LET normalized(wx, wy, wz, l) ==
            IF /\ ~IsZero(a) /\ ~IsZero(b)
               /\ Dot3(a, b) = 0 /\ a.rad = b.rad /\ sa * sa + sb * sb = d * d
            THEN Vec(wx, wy, wz, d * l, a.rad, LenUnit)
            ELSE normalize(Vec(wx, wy, wz, 1, 1, LenUnit))
        weighted(fa, fb, l) ==
            normalized(fa * a.x + fb * b.x, fa * a.y + fb * b.y, fa * a.z + fb * b.z, l)
        common(l) == weighted(sa * (l \div a.den), sb * (l \div b.den), l)
    IN  IF IsZero(a) /\ IsZero(b) THEN ZeroVec ELSE common(Lcm(a.den, b.den))

\* Math.abs(a.dot(b)) > 0.001 for unit vectors a, b:
\* |Dot3| * 1000 > den_a * den_b * sqrt(rad_a * rad_b)
dotExceedsEpsilon(a, b) ==
    LET exceeds(n, r, sr) ==
            n # 0 /\ n > (a.den * b.den * (IF sr * sr = r THEN sr ELSE sr + 1)) \div 1000
    IN  exceeds(Abs(Dot3(a, b)), a.rad * b.rad, ISqrt(a.rad * b.rad))

\* v.sub(n.clone().multiplyScalar(v.dot(n))).normalize() for unit v, n with
\* n.rad = 1: the part of v perpendicular to n
removeComponentNormalized(v, n) ==
    LET without(dn, n2) ==
            normalize(Vec(n2 * v.x - dn * n.x, n2 * v.y - dn * n.y, n2 * v.z - dn * n.z,
                          1, 1, LenUnit))
    IN  without(Dot3(v, n), n.den * n.den)

\* --------------------------------------------------------------- matrices

\* THREE.Matrix4 restricted to its rotation block: rows of numerators over den
makeRotationY(t) ==
    [den |-> t.d,
     m |-> << << t.c, 0, t.s >>, << 0, t.d, 0 >>, << -t.s, 0, t.c >> >>]

makeRotationZ(t) ==
    [den |-> t.d,
     m |-> << << t.c, -t.s, 0 >>, << t.s, t.c, 0 >>, << 0, 0, t.d >> >>]

\* the trig entry of the opposite angle: makeRotation(-angle)
Negated(t) == [t EXCEPT !.s = -t.s]

\* Matrix4.multiplyMatrices(a, b): the product a * b
multiplyMatrices(a, b) ==
    [den |-> a.den * b.den,
     m |-> [i \in 1..3 |-> [j \in 1..3 |->
              a.m[i][1] * b.m[1][j] + a.m[i][2] * b.m[2][j] + a.m[i][3] * b.m[3][j]]]]

\* Vector3.applyMatrix4(m): m * v (scaling by len commutes with the matrix)
applyMatrix4(v, mat) ==
    Vec(mat.m[1][1] * v.x + mat.m[1][2] * v.y + mat.m[1][3] * v.z,
        mat.m[2][1] * v.x + mat.m[2][2] * v.y + mat.m[2][3] * v.z,
        mat.m[3][1] * v.x + mat.m[3][2] * v.y + mat.m[3][3] * v.z,
        v.den * mat.den, v.rad, v.len)

\* --------------------------------------------------------- program units

\* settings.timeOfDay in tenths of an hour (the slider's step, src line 957)
HourUnit == 10

\* settings.pipFov in hundredths of a degree
FovUnit == 100

\* src/locations.ts: the catalogue, coordinates in 1/DegUnit degrees
locations ==
    << [name |-> "New York",       latitude |->  407128, longitude |->   740061],
       [name |-> "Tokyo",          latitude |->  356833, longitude |-> -1397667],
       [name |-> "Rio de Janeiro", latitude |-> -225440, longitude |->   431729],
       [name |-> "Sydney",         latitude |-> -338688, longitude |-> -1512093],
       [name |-> "Cape Town",      latitude |-> -339249, longitude |->  -184241],
       [name |-> "Dubai",          latitude |->  252048, longitude |->  -552708],
       [name |-> "Reykjavik",      latitude |->  641466, longitude |->   219426],
       [name |-> "Mount Everest",  latitude |->  279881, longitude |->  -869250] >>

\* Array.prototype.find: the first element satisfying the test as << element >>,
\* or << >> when there is none (undefined); hits holds the indices of the
\* elements that satisfy the test
Find(seq, hits) ==
    IF hits = {} THEN << >>
    ELSE << seq[CHOOSE i \in hits : \A j \in hits : i <= j] >>

\* ------------------------------------------------- marker placement

\* updateLocationMarker, src lines 1159-1171: tiltMatrix * textureRotationMatrix
rotationMatrix(s) ==
    multiplyMatrices(makeRotationZ(TrigDeg(s.earthTilt)),
                     makeRotationY(TrigRad(s.textureRotation)))

\* updateLocationMarker, src lines 1151-1157: the position on the unrotated
\* sphere, EARTH_RADIUS * (sin phi cos theta, cos phi, sin phi sin theta)
spherePosition(s) ==
    LET spherical(phi, theta) ==
            Vec(phi.s * theta.c, phi.c * theta.d, phi.s * theta.s, phi.d * theta.d, 1,
                EARTH_RADIUS * LenUnit)
    IN  spherical(TrigDeg(90 * DegUnit - s.latitude), TrigDeg(s.longitude))

\* the marker placed on the surface itself, without the surface offset
updateLocationMarkerOnSurface(s) ==
    LET placed(normal) ==
            [position |-> multiplyScalar(normal, EARTH_RADIUS * LenUnit), up |-> normal]
    IN  placed(normalize(applyMatrix4(spherePosition(s), rotationMatrix(s))))

\* updateLocationMarker, src lines 1150-1188: the marker's position, and the
\* image of the up axis under its quaternion (setFromUnitVectors(upVector,
\* normal))
updateLocationMarker(s) ==
    LET placed(normal) ==
            [position |-> multiplyScalar(normal,
                                         EARTH_RADIUS * surfaceOffset * (LenUnit \div 100)),
             up |-> normal]
    IN  placed(normalize(applyMatrix4(spherePosition(s), rotationMatrix(s))))

\* ------------------------------------------------------ surface camera

\* the reference vector without the fallback: always the Y axis
referenceVectorFixed(surfaceNormal) == AxisY

\* the reference vector with the fallback taken when |surfaceNormal.y| > 0.5
referenceVectorHalf(surfaceNormal) ==
    IF 4 * surfaceNormal.y * surfaceNormal.y
           > surfaceNormal.den * surfaceNormal.den * surfaceNormal.rad
    THEN AxisX
    ELSE AxisY

\* updatePictureInPicture, src lines 807-812: the reference vector, the X axis
\* when Math.abs(surfaceNormal.y) > 0.9 (compared as squares) and else Y
referenceVector(surfaceNormal) ==
    IF 100 * surfaceNormal.y * surfaceNormal.y
           > 81 * surfaceNormal.den * surfaceNormal.den * surfaceNormal.rad
    THEN AxisX
    ELSE AxisY

\* the reference vector itself taken as east, without the cross product
eastVectorUnprojected(surfaceNormal) == referenceVector(surfaceNormal)

\* src lines 814-818
eastVector(surfaceNormal) ==
    crossVectorsNormalized(referenceVector(surfaceNormal), surfaceNormal)

\* src lines 820-824
northVector(surfaceNormal) ==
    crossVectorsNormalized(surfaceNormal, eastVector(surfaceNormal))

\* src line 801 and 1225: (timeOfDay / 24) * Math.PI * 2
hourAngle(s) == (s.timeOfDay * TwoPi) \div (24 * HourUnit)

\* the user's rotation alone
totalRotationOfUser(s) == s.pipRotation

\* src line 827
totalRotation(s) == hourAngle(s) + s.pipRotation

\* src lines 814-833: the view direction before the perpendicularity check,
\* sin(rot) * east + cos(rot) * north, normalized
tangentDirection(surfaceNormal, rot) ==
    LET combined(east, t) ==
            addScaledNormalized(east, t.s, crossVectorsNormalized(surfaceNormal, east),
                                t.c, t.d)
    IN  combined(eastVector(surfaceNormal), TrigRad(rot))

\* src lines 836-842: the perpendicularity check and the correction
perpendicularTo(v, surfaceNormal) ==
    IF dotExceedsEpsilon(v, surfaceNormal)
    THEN removeComponentNormalized(v, surfaceNormal)
    ELSE v

\* src lines 814-842: the view direction
viewDirection(surfaceNormal, rot) ==
    perpendicularTo(tangentDirection(surfaceNormal, rot), surfaceNormal)

\* the two weights exchanged
lookDirectionSwapped(view, surfaceNormal, pipTilt) ==
    LET tilted(t) ==
            [tangent |-> view, planeFactor |-> t.s,
             normal |-> surfaceNormal, tiltFactor |-> t.c, d |-> t.d]
    IN  tilted(TrigDeg(pipTilt))

\* src lines 845-859: planeFactor * viewDirection + tiltFactor * normal,
\* normalized.  The two directions are kept apart with their weights
\* (num / d); for perpendicular unit directions the sum has length 1.
lookDirection(view, surfaceNormal, pipTilt) ==
    LET tilted(t) ==
            [tangent |-> view, planeFactor |-> t.c,
             normal |-> surfaceNormal, tiltFactor |-> t.s, d |-> t.d]
    IN  tilted(TrigDeg(pipTilt))

\* src line 792: EARTH_RADIUS + this.settings.pipHeight, clamped at the surface
cameraHeightClamped(s) == EARTH_RADIUS * LenUnit + Max(0, s.pipHeight)

\* src line 792: EARTH_RADIUS + this.settings.pipHeight
cameraHeight(s) == EARTH_RADIUS * LenUnit + s.pipHeight

\* updatePictureInPicture, src lines 767-884: the PIP camera after the call
\* (with the location memory lastPipLocation and the direction arrow the
\* call also writes)
updatePictureInPicture(s, marker, cam) ==
    LET pose(surfaceNormal, cameraPos, view) ==
            [lastPipLocation |-> [latitude |-> s.latitude, longitude |-> s.longitude],
             position |-> cameraPos,
             up |-> surfaceNormal,
             fov |-> s.pipFov,
             target |-> [from |-> cameraPos,
                         direction |-> lookDirection(view, surfaceNormal, s.pipTilt),
                         distance |-> EARTH_RADIUS * 5],
             arrow |-> view]
        above(surfaceNormal) ==
            pose(surfaceNormal,
                 multiplyScalar(surfaceNormal, cameraHeight(s)),
                 viewDirection(surfaceNormal, totalRotation(s)))
    IN  IF ~s.pipEnabled THEN cam ELSE above(normalize(marker.position))

\* ------------------------------------------------------------- picking

\* cos a >= y / sqrt(n2) for the table entry e of the angle a: compared
\* directly when n2 is a square (root its root), and by signs and squares
\* otherwise
CosAtLeast(e, y, n2, root) ==
    IF root * root = n2 THEN e.c * root >= y * e.d
    ELSE IF e.c >= 0 /\ y <= 0 THEN TRUE
    ELSE IF e.c < 0 /\ y >= 0 THEN FALSE
    ELSE IF e.c >= 0 THEN e.c * e.c * n2 >= y * y * e.d * e.d
    ELSE e.c * e.c * n2 <= y * y * e.d * e.d

\* of two indices (0 for none), the one of the greater table angle
Greater(i, j) ==
    IF j = 0 THEN i
    ELSE IF i = 0 THEN j
    ELSE IF TrigTable[j].deg >= TrigTable[i].deg THEN j ELSE i

\* the index, among the entries lo..hi, of the greatest table angle of
\* [0, 180] whose cosine is at least y / sqrt(n2); 0 when there is none
RECURSIVE acosFrom(_, _, _, _, _)
acosFrom(y, n2, root, lo, hi) ==
    IF lo = hi
    THEN IF TrigTable[lo].s >= 0 /\ CosAtLeast(TrigTable[lo], y, n2, root)
         THEN lo ELSE 0
    ELSE Greater(acosFrom(y, n2, root, lo, (lo + hi) \div 2),
                 acosFrom(y, n2, root, (lo + hi) \div 2 + 1, hi))

\* Math.acos(Math.max(-1, Math.min(1, v.y / v.length()))) in degrees: the
\* table angle of [0, 180] whose cosine is v.y / |v|, and between two table
\* angles the smaller one (the first entry is the angle 0, of cosine 1)
acosDeg(v) ==
    TrigTable[acosFrom(v.y, SumSq(v), ISqrt(SumSq(v)), 1, Len(TrigTable))].deg

\* of two indices i < j, the one whose table direction is nearer to (x, z):
\* the one with the larger cosine (c * x + s * z) / d of the difference (the
\* first one when they are equal)
Closer(x, z, i, j) ==
    IF (TrigTable[j].c * x + TrigTable[j].s * z) * TrigTable[i].d
           > (TrigTable[i].c * x + TrigTable[i].s * z) * TrigTable[j].d
    THEN j ELSE i

\* the index, among the entries lo..hi, of the table direction nearest to
\* (x, z) (the first such one in table order)
RECURSIVE atan2From(_, _, _, _)
atan2From(x, z, lo, hi) ==
    IF lo = hi THEN lo
    ELSE Closer(x, z, atan2From(x, z, lo, (lo + hi) \div 2),
                atan2From(x, z, (lo + hi) \div 2 + 1, hi))

\* Math.atan2(v.z, v.x) in degrees, in (-180, 180]: the angle of the table
\* direction nearest to (x, z); atan2(0, 0) = 0.
atan2Deg(v) ==
    IF v.x = 0 /\ v.z = 0 THEN 0 ELSE TrigTable[atan2From(v.x, v.z, 1, Len(TrigTable))].deg

\* the hit point with the texture rotation and then the tilt undone: the
\* inverses in the order of the forward rotations
untiltedPointRotationFirst(intersectPoint, s) ==
    applyMatrix4(applyMatrix4(intersectPoint,
                              makeRotationY(Negated(TrigRad(s.textureRotation)))),
                 makeRotationZ(Negated(TrigDeg(s.earthTilt))))

\* onEarthClick, src lines 1303-1315: the hit point with the tilt and then
\* the texture rotation undone
untiltedPoint(intersectPoint, s) ==
    applyMatrix4(applyMatrix4(intersectPoint, makeRotationZ(Negated(TrigDeg(s.earthTilt)))),
                 makeRotationY(Negated(TrigRad(s.textureRotation))))

\* the colatitude taken for the latitude
geoCoordinateColatitude(untilted) ==
    [latitude |-> acosDeg(untilted), longitude |-> atan2Deg(untilted)]

\* onEarthClick, src lines 1317-1330: the latitude and longitude of the
\* untilted point
geoCoordinate(untilted) ==
    [latitude |-> 90 * DegUnit - acosDeg(untilted), longitude |-> atan2Deg(untilted)]

\* onEarthClick, src lines 1303-1330: the location picked at a hit point
pickLocation(intersectPoint, s) == geoCoordinate(untiltedPoint(intersectPoint, s))

\* findClosestLocation finding nothing
findClosestLocationNone(latitude, longitude) == << >>

\* findClosestLocation with the tolerance of 0.1 degrees
findClosestLocationExact(latitude, longitude) ==
    LET Near(loc) == /\ Abs(loc.latitude - latitude) < DegUnit \div 10
                     /\ Abs(loc.longitude - longitude) < DegUnit \div 10
    IN  Find(locations, {i \in 1..Len(locations) : Near(locations[i])})

\* findClosestLocation, src lines 1348-1360: the first catalogue entry within
\* 2 degrees in latitude and in longitude as << location >>, or << >> (null)
findClosestLocation(latitude, longitude) ==
    LET Near(loc) == /\ Abs(loc.latitude - latitude) < 2 * DegUnit
                     /\ Abs(loc.longitude - longitude) < 2 * DegUnit
    IN  Find(locations, {i \in 1..Len(locations) : Near(locations[i])})

\* ---------------------------------------------------------------- state

VARIABLES
    settings,           \* this.settings (the fields the geometry reads)
    locationMarker,     \* this.locationMarker: position and orientation
    pipCamera,          \* this.pipCamera, with lastPipLocation and the arrow
    earth,              \* this.earth.rotation: y in radians, z as the tilt in degrees
    hasDragged,         \* this.hasDragged
    isDraggingOrbit,    \* this.isDraggingOrbit
    dragTotalMovement,  \* this.dragTotalMovement, in pixels
    isDragging,         \* setupPictureInPicture's isDragging
    rotationAngle,      \* setupPictureInPicture's rotationAngle
    tiltAngle,          \* setupPictureInPicture's tiltAngle
    lastEvent           \* what ran last: a rendered frame ("animate"), a click on
                        \* the canvas by its outcome ("pick", "miss", "skipped")
                        \* or another handler ("input")

\* the drag state of the main canvas, src lines 72-75
canvasDrag == << hasDragged, isDraggingOrbit, dragTotalMovement >>

vars == << settings, locationMarker, pipCamera, earth, hasDragged, isDraggingOrbit,
           dragTotalMovement, isDragging, rotationAngle, tiltAngle, lastEvent >>

\* src lines 42-69: the defaults of this.settings
defaultSettings ==
    [latitude |-> 0, longitude |-> 0, selectedLocation |-> "",
     timeOfDay |-> 12 * HourUnit, pipEnabled |-> TRUE, pipFov |-> 75 * FovUnit,
     pipHeight |-> 2000, textureRotation |-> Pi, earthTilt |-> 235000,
     pipRotation |-> 0, pipTilt |-> 70 * DegUnit]

\* updateEarthRotation, src lines 157-166
updateEarthRotation(s) == [y |-> s.textureRotation, z |-> s.earthTilt]

\* The rotation matrix of the mesh: earth.rotation is an Euler triple in the
\* order XYZ with x = 0 (src line 159), whose matrix is the rotation about Y
\* times the rotation about Z.
meshMatrix(rot) ==
    multiplyMatrices(makeRotationY(TrigRad(rot.y)), makeRotationZ(TrigDeg(rot.z)))

\* the dropdown falling back to "Custom" unless a catalogue entry is within
\* 0.1 degrees of the location and away from it
selectedAfterViewApart(s) ==
    LET Here(loc) == /\ Abs(loc.latitude - s.latitude) < DegUnit \div 10
                     /\ Abs(loc.longitude - s.longitude) < DegUnit \div 10
                     /\ loc.latitude # s.latitude
    IN  IF /\ s.selectedLocation # "Custom"
           /\ Find(locations, {i \in 1..Len(locations) : Here(locations[i])}) = << >>
        THEN "Custom"
        ELSE s.selectedLocation

\* updateView, src lines 1228-1239: the dropdown falls back to "Custom" when
\* no catalogue entry is within 0.1 degrees of the location
selectedAfterView(s) ==
    LET Here(loc) == /\ Abs(loc.latitude - s.latitude) < DegUnit \div 10
                     /\ Abs(loc.longitude - s.longitude) < DegUnit \div 10
    IN  IF /\ s.selectedLocation # "Custom"
           /\ Find(locations, {i \in 1..Len(locations) : Here(locations[i])}) = << >>
        THEN "Custom"
        ELSE s.selectedLocation

\* updateView without its call of updateLocationMarker: the marker stays
\* where it was
updateViewKeepingMarker(s, cam, rot) ==
    [settings |-> [s EXCEPT !.selectedLocation = selectedAfterView(s)],
     locationMarker |-> locationMarker,
     pipCamera |-> updatePictureInPicture(s, locationMarker, cam),
     earth |-> [y |-> s.textureRotation + hourAngle(s), z |-> rot.z]]

\* updateView, src lines 1210-1240, run on settings s with the PIP camera cam
\* and the mesh rotation rot: the marker, the PIP camera (when enabled), the
\* mesh rotation and the dropdown after the call
updateView(s, cam, rot) ==
    LET viewed(marker) ==
            [settings |-> [s EXCEPT !.selectedLocation = selectedAfterView(s)],
             locationMarker |-> marker,
             pipCamera |-> updatePictureInPicture(s, marker, cam),
             earth |-> [y |-> s.textureRotation + hourAngle(s), z |-> rot.z]]
    IN  viewed(updateLocationMarker(s))

\* the PIP camera as setupPictureInPicture creates it, src lines 393-398
newPipCamera ==
    [lastPipLocation |-> [latitude |-> 0, longitude |-> 0],
     position |-> ZeroVec, up |-> AxisY, fov |-> defaultSettings.pipFov,
     target |-> [from |-> ZeroVec,
                 direction |-> [tangent |-> ZeroVec, planeFactor |-> 0,
                                normal |-> ZeroVec, tiltFactor |-> 0, d |-> 1],
                 distance |-> 0],
     arrow |-> AxisY]

\* the marker and the PIP camera of the first frame
firstFrame(marker) ==
    /\ locationMarker = marker
    /\ pipCamera = updatePictureInPicture(defaultSettings, marker, newPipCamera)

\* The state after the constructor, src lines 77-114: createEarth (with
\* updateEarthRotation), createLocationMarker (with updateLocationMarker),
\* setupPictureInPicture, and the first animate().
Init ==
    /\ settings = defaultSettings
    /\ earth = updateEarthRotation(defaultSettings)
    /\ firstFrame(updateLocationMarker(defaultSettings))
    /\ hasDragged = FALSE
    /\ isDraggingOrbit = FALSE
    /\ dragTotalMovement = 0
    /\ isDragging = FALSE
    /\ rotationAngle = 0
    /\ tiltAngle = defaultSettings.pipTilt
    /\ lastEvent = "animate"

\* --------------------------------------------------------------- inputs

\* latitude slider, src line 925: -90 .. 90 in steps of 0.1
LatitudeInputs == {900000}

\* longitude slider, src line 930: -180 .. 180 in steps of 0.1
LongitudeInputs == {900000}

\* timeOfDay slider, src line 957: 0 .. 24 in steps of 0.1
TimeInputs == {60}

\* textureRotation slider, src line 1096: 0 .. 2 pi in steps of 0.01
TextureRotationInputs == {15700}

\* earthTilt slider, src line 1104: -90 .. 90 in steps of 0.1
EarthTiltInputs == {369000}

\* location dropdown, src line 910: "Custom" and catalogue names
DropdownInputs == {"Custom", "Tokyo"}

\* pipFov slider, src line 1006: 20 .. 120 in steps of 1
PipFovInputs == {20 * FovUnit, 90 * FovUnit, 120 * FovUnit}

\* pipHeight slider, src line 1016: -2 .. 5 in steps of 0.01
PipHeightInputs == {-2 * LenUnit, 5 * LenUnit}

\* The points of the planet's surface a click can hit, src line 1301: the
\* world positions, under the current orientation, of geographic points
\* (latitude, longitude) of the sphere of radius EARTH_RADIUS.
surfacePoint(latitude, longitude, s) ==
    multiplyScalar(
        normalize(applyMatrix4(
            spherePosition([s EXCEPT !.latitude = latitude, !.longitude = longitude]),
            rotationMatrix(s))),
        EARTH_RADIUS * LenUnit)

\* the geographic points clicked on, as <<latitude, longitude>>
ClickTargets == { <<0, 900000>> }

\* raycaster.intersectObject(this.earth), src line 1298: the intersections,
\* none (a click beside the planet) or the hit point
ClickHits(s) == {<< >>} \cup { << surfacePoint(g[1], g[2], s) >> : g \in ClickTargets }

\* -------------------------------------------------------------- actions

\* the state after a handler that ends in updateView(), with the settings s
\* the handler has written and the mesh rotation rot it has left
ApplyView(s, rot, event) ==
    LET shown(v) ==
            /\ settings' = v.settings
            /\ locationMarker' = v.locationMarker
            /\ pipCamera' = v.pipCamera
            /\ earth' = v.earth
            /\ lastEvent' = event
            /\ UNCHANGED << canvasDrag, isDragging, rotationAngle, tiltAngle >>
    IN  shown(updateView(s, pipCamera, rot))

\* the state after a handler that writes the settings s and ends in
\* updatePictureInPicture()
ApplyPip(s, event) ==
    /\ settings' = s
    /\ pipCamera' = updatePictureInPicture(settings', locationMarker, pipCamera)
    /\ lastEvent' = event
    /\ UNCHANGED << locationMarker, earth, canvasDrag >>

\* createEarth's texture callback, src lines 139-143
TextureLoaded == ApplyView(settings, earth, "input")

\* latitude slider, src lines 924-927
SetLatitude ==
    \E value \in LatitudeInputs :
        ApplyView([settings EXCEPT !.latitude = value], earth, "input")

\* longitude slider, src lines 929-932
SetLongitude ==
    \E value \in LongitudeInputs :
        ApplyView([settings EXCEPT !.longitude = value], earth, "input")

\* location dropdown, src lines 911-922: the handler for the chosen value
selectLocation(value) ==
    LET Named(loc) == loc.name = value
        chosen(location) ==
            IF value = "Custom" \/ location = << >>
            THEN /\ settings' = [settings EXCEPT !.selectedLocation = value]
                 /\ lastEvent' = "input"
                 /\ UNCHANGED << locationMarker, pipCamera, earth, canvasDrag,
                                 isDragging, rotationAngle, tiltAngle >>
            ELSE ApplyView([settings EXCEPT !.selectedLocation = value,
                                            !.latitude = location[1].latitude,
                                            !.longitude = location[1].longitude],
                           earth, "input")
    IN  chosen(Find(locations, {i \in 1..Len(locations) : Named(locations[i])}))

\* location dropdown, src lines 911-922
SelectLocation == \E value \in DropdownInputs : selectLocation(value)

\* timeOfDay slider, src lines 956-959
SetTimeOfDay ==
    \E value \in TimeInputs :
        ApplyView([settings EXCEPT !.timeOfDay = value], earth, "input")

\* textureRotation slider, src lines 1095-1101
SetTextureRotation ==
    \E value \in TextureRotationInputs :
        ApplyView([settings EXCEPT !.textureRotation = value],
                  updateEarthRotation([settings EXCEPT !.textureRotation = value]),
                  "input")

\* earthTilt slider, src lines 1103-1109
SetEarthTilt ==
    \E value \in EarthTiltInputs :
        ApplyView([settings EXCEPT !.earthTilt = value],
                  updateEarthRotation([settings EXCEPT !.earthTilt = value]),
                  "input")

\* pipEnabled checkbox, src lines 997-1002
SetPipEnabled ==
    \E value \in BOOLEAN :
        /\ ApplyPip([settings EXCEPT !.pipEnabled = value], "input")
        /\ UNCHANGED << isDragging, rotationAngle, tiltAngle >>

\* pipFov slider, src lines 1005-1012: the camera's fov is written before
\* updatePictureInPicture, which returns early when PIP is disabled
SetPipFov ==
    \E value \in PipFovInputs :
        /\ settings' = [settings EXCEPT !.pipFov = value]
        /\ pipCamera' = updatePictureInPicture([settings EXCEPT !.pipFov = value],
                                               locationMarker,
                                               [pipCamera EXCEPT !.fov = value])
        /\ lastEvent' = "input"
        /\ UNCHANGED << locationMarker, earth, canvasDrag, isDragging, rotationAngle,
                        tiltAngle >>

\* pipHeight slider, src lines 1015-1020
SetPipHeight ==
    \E value \in PipHeightInputs :
        /\ ApplyPip([settings EXCEPT !.pipHeight = value], "input")
        /\ UNCHANGED << isDragging, rotationAngle, tiltAngle >>

\* onEarthClick with a miss treated as a pick of no location: the selection
\* is reset to "Custom"
onEarthClickResetting(intersects) ==
    IF hasDragged
    THEN /\ hasDragged' = FALSE
         /\ lastEvent' = "skipped"
         /\ UNCHANGED << settings, locationMarker, pipCamera, earth >>
    ELSE /\ settings' = [settings EXCEPT !.selectedLocation = "Custom"]
         /\ lastEvent' = IF Len(intersects) = 0 THEN "miss" ELSE "pick"
         /\ UNCHANGED << locationMarker, pipCamera, earth, hasDragged >>

\* onEarthClick, src lines 1283-1346, with the intersections the ray found:
\* what the handler does to the settings, the marker, the PIP camera, the
\* mesh and hasDragged
onEarthClick(intersects) ==
    LET selected(v, closestLocation) ==
            /\ settings' = IF closestLocation = << >> THEN v.settings
                           ELSE [v.settings EXCEPT
                                     !.selectedLocation = closestLocation[1].name]
            /\ locationMarker' = v.locationMarker
            /\ pipCamera' = v.pipCamera
            /\ earth' = v.earth
            /\ lastEvent' = "pick"
            /\ UNCHANGED hasDragged
        picked(geo) ==
            selected(updateView([settings EXCEPT !.latitude = geo.latitude,
                                                 !.longitude = geo.longitude,
                                                 !.selectedLocation = "Custom"],
                                pipCamera, earth),
                     findClosestLocation(geo.latitude, geo.longitude))
    IN  IF hasDragged
        THEN /\ hasDragged' = FALSE
             /\ lastEvent' = "skipped"
             /\ UNCHANGED << settings, locationMarker, pipCamera, earth >>
        ELSE IF Len(intersects) = 0
        THEN /\ lastEvent' = "miss"
             /\ UNCHANGED << settings, locationMarker, pipCamera, earth, hasDragged >>
        ELSE picked(pickLocation(intersects[1], settings))

\* a click on the canvas without pointer movement, src lines 1143-1146
EarthClick ==
    \E intersects \in ClickHits(settings) :
        /\ onEarthClick(intersects)
        /\ UNCHANGED << isDraggingOrbit, dragTotalMovement, isDragging, rotationAngle,
                        tiltAngle >>

\* animate, src lines 1261-1281: a rendered frame
Animate ==
    /\ ApplyPip(settings, "animate")
    /\ UNCHANGED << isDragging, rotationAngle, tiltAngle >>

\* ------------------------------------------------- PIP input handlers

\* mouse movements on the PIP container, in pixels
MouseDeltaX == {-157, 157}

MouseDeltaY == {-800, 800}

\* the bound on |rotationAngle| up to which drags are followed
MaxRotation == 15708

\* wheel events, src line 455: e.deltaY
WheelDeltas == {-100, 100}

\* the keys pressed, src lines 483-503
PipKeys == {"q", "e"}

\* the tilt angle without the limits
clampTiltNone(angle) == angle

\* src line 432: Math.max(10, Math.min(170, tiltAngle))
clampTilt(angle) == Max(10 * DegUnit, Min(170 * DegUnit, angle))

\* the field of view without the limits
clampFovNone(fov) == fov

\* src lines 459-462: Math.max(20, Math.min(120, fov))
clampFov(fov) == Max(20 * FovUnit, Min(120 * FovUnit, fov))

\* src lines 485 and 490: pipHeight * 1.1 and pipHeight * 0.9, as tenths
\* (rounded down to 1/LenUnit km)
scaleHeight(height, tenths) == (height * tenths) \div 10

\* the PIP container is displayed, so that it receives mouse events
\* (src line 772)
pipDisplayed == settings.pipEnabled

\* PIP container mousedown, src lines 411-417
PipMouseDown ==
    /\ pipDisplayed
    /\ isDragging' = TRUE
    /\ lastEvent' = "input"
    /\ UNCHANGED << settings, locationMarker, pipCamera, earth, canvasDrag,
                    rotationAngle, tiltAngle >>

\* PIP container mousemove, src lines 420-445
PipMouseMove ==
    /\ pipDisplayed
    /\ \E deltaX \in MouseDeltaX, deltaY \in MouseDeltaY :
          IF ~isDragging
          THEN /\ lastEvent' = "input"
               /\ UNCHANGED << settings, locationMarker, pipCamera, earth, canvasDrag,
                               isDragging, rotationAngle, tiltAngle >>
          ELSE /\ Abs(rotationAngle + deltaX * (RadUnit \div 100)) <= MaxRotation
               /\ rotationAngle' = rotationAngle + deltaX * (RadUnit \div 100)
               /\ tiltAngle' = clampTilt(tiltAngle - deltaY * (DegUnit \div 5))
               /\ ApplyPip([settings EXCEPT !.pipRotation = rotationAngle',
                                            !.pipTilt = tiltAngle'], "input")
               /\ UNCHANGED isDragging

\* the end of a PIP drag, src lines 516-517 and 525-526
StopDragging ==
    /\ isDragging' = FALSE
    /\ lastEvent' = "input"
    /\ UNCHANGED << settings, locationMarker, pipCamera, earth, canvasDrag,
                    rotationAngle, tiltAngle >>

\* document mouseup, src lines 531-536 and 1138-1141: both listeners
DocumentMouseUp ==
    /\ isDragging' = FALSE
    /\ isDraggingOrbit' = FALSE
    /\ lastEvent' = "input"
    /\ UNCHANGED << settings, locationMarker, pipCamera, earth, hasDragged,
                    dragTotalMovement, rotationAngle, tiltAngle >>

\* PIP container mouseup, src lines 514-520: the event reaches the document
\* unless a PIP drag was going on
PipMouseUp == pipDisplayed /\ IF isDragging THEN StopDragging ELSE DocumentMouseUp

\* PIP container mouseleave, src lines 523-528
PipMouseLeave == pipDisplayed /\ StopDragging


\* PIP container wheel, src lines 448-473
PipWheel ==
    /\ pipDisplayed
    /\ \E deltaY \in WheelDeltas :
          /\ settings' = [settings EXCEPT
                              !.pipFov = clampFov(settings.pipFov + deltaY * (FovUnit \div 20))]
          /\ pipCamera' = updatePictureInPicture(settings', locationMarker,
                                                 [pipCamera EXCEPT !.fov = settings'.pipFov])
          /\ lastEvent' = "input"
          /\ UNCHANGED << locationMarker, earth, canvasDrag, isDragging, rotationAngle,
                          tiltAngle >>

\* document keydown, src lines 476-511: the settings after the key
keyPressed(key, s) ==
    [s EXCEPT !.pipHeight = IF key = "w" THEN Min(5 * LenUnit, scaleHeight(s.pipHeight, 11))
                            ELSE IF key = "s" THEN Max(-2 * LenUnit, scaleHeight(s.pipHeight, 9))
                            ELSE s.pipHeight,
              !.pipFov = IF key = "q" THEN Max(20 * FovUnit, s.pipFov - 2 * FovUnit)
                         ELSE IF key = "e" THEN Min(120 * FovUnit, s.pipFov + 2 * FovUnit)
                         ELSE s.pipFov]

\* document keydown, src lines 476-511: the handler for the key
keyDown(key) ==
    IF ~settings.pipEnabled
    THEN /\ lastEvent' = "input"
         /\ UNCHANGED << settings, locationMarker, pipCamera, earth, canvasDrag,
                         isDragging, rotationAngle, tiltAngle >>
    ELSE /\ settings' = keyPressed(key, settings)
         /\ pipCamera' = updatePictureInPicture(
                             settings', locationMarker,
                             IF key \in {"q", "e"}
                             THEN [pipCamera EXCEPT !.fov = settings'.pipFov]
                             ELSE pipCamera)
         /\ lastEvent' = "input"
         /\ UNCHANGED << locationMarker, earth, canvasDrag, isDragging,
                         rotationAngle, tiltAngle >>

\* document keydown, src lines 476-511
KeyDown == \E key \in PipKeys : keyDown(key)

\* The simulator under its GUI controls, clicks and frames.
Next ==
    \/ TextureLoaded
    \/ SetLatitude
    \/ SetLongitude
    \/ SelectLocation
    \/ SetTimeOfDay
    \/ SetTextureRotation
    \/ SetEarthTilt
    \/ SetPipEnabled
    \/ EarthClick
    \/ Animate

Spec == Init /\ [][Next]_vars

\* The PIP view under its own inputs: drags, wheel, keys and the PIP sliders.
PipNext ==
    \/ PipMouseDown
    \/ PipMouseMove
    \/ PipMouseUp
    \/ PipMouseLeave
    \/ DocumentMouseUp
    \/ PipWheel
    \/ KeyDown
    \/ SetPipEnabled
    \/ SetPipFov
    \/ SetPipHeight
    \/ Animate

PipSpec == Init /\ [][PipNext]_vars


\* ------------------------------------------------- geometry over a grid

\* latitudes and longitudes a click can pick: 90 degrees minus a table angle
\* of [0, 180], and table angles
GeoLatitudes == {-900000, -531301, -368699, 0, 356833, 531301, 673801, 900000}

GeoLongitudes == {-1397667, -900000, -368699, 0, 226199, 543167, 1268699, 1800000}

\* earthTilt and textureRotation values of the sliders (src lines 1096, 1104)
GeoEarthTilts == {-900000, -369000, 0, 235000, 531000, 900000}

GeoTextureRotations == {0, 6400, 15700, 31416, 47100, 53600}

\* timeOfDay, pipRotation, pipHeight and pipTilt together
GeoViews ==
    { [timeOfDay |-> 120, pipRotation |-> 0, pipHeight |-> 2000,
       pipTilt |-> 90 * DegUnit],
      [timeOfDay |-> 60, pipRotation |-> 6400, pipHeight |-> -2 * LenUnit,
       pipTilt |-> 10 * DegUnit],
      [timeOfDay |-> 0, pipRotation |-> -15700, pipHeight |-> -5000,
       pipTilt |-> 170 * DegUnit] }

\* the bound on the common denominator of a surface normal's components, the
\* product of the denominators of the four angles it is computed from
MaxDenominator == 325

normalDenominator(latitude, longitude, earthTilt, textureRotation) ==
    TrigDeg(90 * DegUnit - latitude).d * TrigDeg(longitude).d
        * TrigDeg(earthTilt).d * TrigRad(textureRotation).d

\* the settings of the grid
GeoSettings ==
    { [defaultSettings EXCEPT !.latitude = g[1], !.longitude = g[2], !.earthTilt = g[3],
                              !.textureRotation = g[4], !.timeOfDay = g[5].timeOfDay,
                              !.pipRotation = g[5].pipRotation,
                              !.pipHeight = g[5].pipHeight,
                              !.pipTilt = g[5].pipTilt,
                              !.selectedLocation = "Custom"] :
        g \in { h \in GeoLatitudes \X GeoLongitudes \X GeoEarthTilts
                        \X GeoTextureRotations \X GeoViews :
                    normalDenominator(h[1], h[2], h[3], h[4]) <= MaxDenominator } }

\* the marker and the PIP camera of settings s after updateView() and a frame
viewedFrame(s, marker) ==
    /\ locationMarker = marker
    /\ pipCamera = updatePictureInPicture(s, marker, newPipCamera)

\* A state of the simulator after clicks, drags and slider changes have led
\* to settings of the grid and the view has been updated.
GeoInit ==
    \E s \in GeoSettings :
        /\ settings = s
        /\ earth = [y |-> s.textureRotation + hourAngle(s), z |-> s.earthTilt]
        /\ viewedFrame(s, updateLocationMarker(s))
        /\ hasDragged = FALSE
        /\ isDraggingOrbit = FALSE
        /\ dragTotalMovement = 0
        /\ isDragging = FALSE
        /\ rotationAngle = s.pipRotation
        /\ tiltAngle = s.pipTilt
        /\ lastEvent = "animate"

\* a click whose ray hits the planet at the marker's position
ClickMarker ==
    /\ onEarthClick(<< locationMarker.position >>)
    /\ UNCHANGED << isDraggingOrbit, dragTotalMovement, isDragging, rotationAngle,
                    tiltAngle >>

\* Placement, camera pose and picking over the grid.
GeoNext ==
    \/ ClickMarker
    \/ TextureLoaded
    \/ Animate

GeoSpec == GeoInit /\ [][GeoNext]_vars


\* ------------------------------------------------ the height keys

\* the keys that move the surface camera, src lines 483-492
HeightKeys == {"w", "s"}

\* the number of key presses followed after the height was set by the slider
\* (or by the constructor)
MaxPresses == 3

\* the heights n presses of the height keys lead to from the slider's
RECURSIVE HeightsWithin(_)
HeightsWithin(n) ==
    IF n = 0 THEN PipHeightInputs \cup {defaultSettings.pipHeight}
    ELSE HeightsWithin(n - 1)
             \cup { keyPressed(key, [defaultSettings EXCEPT !.pipHeight = h]).pipHeight :
                        key \in HeightKeys, h \in HeightsWithin(n - 1) }

\* document keydown, src lines 476-511, with W or S
HeightKeyDown ==
    /\ settings.pipHeight \in HeightsWithin(MaxPresses - 1)
    /\ \E key \in HeightKeys : keyDown(key)

\* The surface camera's height under the slider and the keys.
HeightNext ==
    \/ HeightKeyDown
    \/ SetPipHeight
    \/ SetPipEnabled
    \/ Animate

HeightSpec == Init /\ [][HeightNext]_vars


\* ------------------------------------------------ drags on the canvas

\* mouse movements on the canvas, as <<movementX, movementY>> in pixels
CanvasMovements == { <<-3, 2>>, <<4, -2>> }

\* the bound on dragTotalMovement up to which movements are followed
MaxDragMovement == 17

\* the movement of 20 pixels taken for a drag
dragExceededTwenty(total) == total > 20

\* src line 1132: the movement that makes a drag of a click
dragExceeded(total) == total > 10

\* canvas mousedown that leaves hasDragged as it was
CanvasMouseDownKeeping ==
    /\ isDraggingOrbit' = TRUE
    /\ dragTotalMovement' = 0
    /\ lastEvent' = "input"
    /\ UNCHANGED << settings, locationMarker, pipCamera, earth, hasDragged, isDragging,
                    rotationAngle, tiltAngle >>

\* canvas mousedown, src lines 1122-1126
CanvasMouseDown ==
    /\ isDraggingOrbit' = TRUE
    /\ dragTotalMovement' = 0
    /\ hasDragged' = FALSE
    /\ lastEvent' = "input"
    /\ UNCHANGED << settings, locationMarker, pipCamera, earth, isDragging,
                    rotationAngle, tiltAngle >>

\* canvas mousemove, src lines 1128-1136
CanvasMouseMove ==
    \E movement \in CanvasMovements :
        /\ IF isDraggingOrbit
           THEN /\ dragTotalMovement + Abs(movement[1]) + Abs(movement[2])
                       <= MaxDragMovement
                /\ dragTotalMovement' =
                       dragTotalMovement + Abs(movement[1]) + Abs(movement[2])
                /\ hasDragged' = IF dragExceeded(dragTotalMovement') THEN TRUE
                                 ELSE hasDragged
                /\ UNCHANGED isDraggingOrbit
           ELSE UNCHANGED canvasDrag
        /\ lastEvent' = "input"
        /\ UNCHANGED << settings, locationMarker, pipCamera, earth, isDragging,
                        rotationAngle, tiltAngle >>

\* The button released over the canvas it was pressed on: the document's
\* mouseup listeners, src lines 531-536 and 1138-1141, and then the canvas's
\* click listener, src lines 1143-1146
CanvasMouseUp ==
    /\ isDraggingOrbit
    /\ \E intersects \in ClickHits(settings) :
          /\ onEarthClick(intersects)
          /\ isDraggingOrbit' = FALSE
          /\ isDragging' = FALSE
          /\ UNCHANGED << dragTotalMovement, rotationAngle, tiltAngle >>

\* Presses, movements, releases and clicks on the canvas.
DragNext ==
    \/ CanvasMouseDown
    \/ CanvasMouseMove
    \/ CanvasMouseUp
    \/ DocumentMouseUp
    \/ SelectLocation
    \/ TextureLoaded
    \/ Animate

DragSpec == Init /\ [][DragNext]_vars


\* ------------------------------------------- the catalogue with PIP off

\* the names of the catalogue, src line 910
CatalogueNames == { locations[i].name : i \in 1..Len(locations) }

\* earthTilt and textureRotation values of the sliders (src lines 1096, 1104)
\* at which the planet's axes lie along the world's
PickEarthTilts == {0, 900000}

PickTextureRotations == {0, 15700, 31400}

\* the ends of the latitude and longitude sliders, src lines 925 and 930
PickLatitudes == {-900000, 900000}

\* (and -18.4 degrees, the slider's value next to Cape Town's longitude)
PickLongitudes == {-1800000, -184000, 1800000}

\* the ends of the timeOfDay slider, src line 957
PickTimes == {0, 24 * HourUnit}

\* geographic points clicked on, as <<latitude, longitude>>: 0.9 and 3.4
\* degrees east of Tokyo, and the North Pole
PickTargets == { <<356833, -1388879>>, <<356833, -1363972>>, <<900000, 0>> }

\* raycaster.intersectObject(this.earth), src line 1298: none (a click beside
\* the planet), the point under the marker, or the point of a target
PickHits(s) ==
    {<< >>, << locationMarker.position >>}
        \cup { << surfacePoint(g[1], g[2], s) >> : g \in PickTargets }

\* A state of the simulator with the PIP view switched off, the planet's
\* axes along the world's and the view updated.
PickInit ==
    \E tilt \in PickEarthTilts, rotation \in PickTextureRotations :
        LET placed(s) ==
                /\ settings = s
                /\ earth = [y |-> s.textureRotation + hourAngle(s), z |-> s.earthTilt]
                /\ locationMarker = updateLocationMarker(s)
                /\ pipCamera = updatePictureInPicture(
                                   defaultSettings,
                                   updateLocationMarker(defaultSettings), newPipCamera)
        IN  /\ placed([defaultSettings EXCEPT !.pipEnabled = FALSE,
                                              !.earthTilt = tilt,
                                              !.textureRotation = rotation,
                                              !.selectedLocation = "Custom"])
            /\ hasDragged = FALSE
            /\ isDraggingOrbit = FALSE
            /\ dragTotalMovement = 0
            /\ isDragging = FALSE
            /\ rotationAngle = 0
            /\ tiltAngle = defaultSettings.pipTilt
            /\ lastEvent = "animate"

\* location dropdown, src lines 911-922, over the whole catalogue
SelectCatalogueLocation ==
    \E value \in {"Custom"} \cup CatalogueNames : selectLocation(value)

\* latitude slider, src lines 924-927, at its ends
SetLatitudeEnd ==
    \E value \in PickLatitudes :
        ApplyView([settings EXCEPT !.latitude = value], earth, "input")

\* longitude slider, src lines 929-932, at its ends
SetLongitudeEnd ==
    \E value \in PickLongitudes :
        ApplyView([settings EXCEPT !.longitude = value], earth, "input")

\* timeOfDay slider, src lines 956-959, at its ends
SetTimeOfDayEnd ==
    \E value \in PickTimes :
        ApplyView([settings EXCEPT !.timeOfDay = value], earth, "input")

\* a click on the canvas without pointer movement, src lines 1143-1146
CatalogueClick ==
    \E intersects \in PickHits(settings) :
        /\ onEarthClick(intersects)
        /\ UNCHANGED << isDraggingOrbit, dragTotalMovement, isDragging, rotationAngle,
                        tiltAngle >>

\* Selecting and picking locations of the catalogue with the PIP view off.
PickNext ==
    \/ SelectCatalogueLocation
    \/ SetLatitudeEnd
    \/ SetLongitudeEnd
    \/ SetTimeOfDayEnd
    \/ CatalogueClick
    \/ Animate

PickSpec == PickInit /\ [][PickNext]_vars


\* ---------------------------------------------------------------- claims

\* C1.  Round trip: for a latitude in [-89, 89] and a longitude in
\* (-180, 180], under every orientation of the grid, picking at the position
\* that updateLocationMarker computes for (latitude, longitude) gives
\* (latitude, longitude) again.
RoundTrip ==
    ( /\ settings.latitude >= -89 * DegUnit
      /\ settings.latitude <= 89 * DegUnit
      /\ settings.longitude > -180 * DegUnit
      /\ settings.longitude <= 180 * DegUnit )
    => pickLocation(updateLocationMarker(settings).position, settings)
           = [latitude |-> settings.latitude, longitude |-> settings.longitude]

\* a click on the marker, with tilt and texture rotation both in effect, has
\* kept the location
RoundTripWitness ==
    /\ lastEvent = "pick"
    /\ settings.latitude = 356833
    /\ settings.longitude = 1268699
    /\ settings.earthTilt = 235000
    /\ settings.textureRotation = 47100
    /\ pickLocation(locationMarker.position, settings)
           = [latitude |-> 356833, longitude |-> 1268699]

\* C2, as the claim states it: the rotation updateLocationMarker applies and
\* the rotation of the mesh carry the marker's point of the unrotated
\* sphere, and the point on the X axis, to the same world position.
MarkerRotationIsMeshRotation ==
    \A point \in {spherePosition(settings), AxisX} :
        applyMatrix4(point, rotationMatrix(settings)) = applyMatrix4(point, meshMatrix(earth))

\* C3.  At every frame rendered with PIP enabled, the PIP camera's up vector
\* is the normalized position that updateLocationMarker gives for the
\* current latitude, longitude, textureRotation and earthTilt.
CameraUpIsCurrentNormal ==
    (lastEvent = "animate" /\ settings.pipEnabled)
    => pipCamera.up = normalize(updateLocationMarker(settings).position)

\* a frame with PIP enabled, after the location, the tilt and the texture
\* rotation have been changed
CameraUpWitness ==
    /\ lastEvent = "animate"
    /\ settings.pipEnabled
    /\ settings.selectedLocation = "Tokyo"
    /\ settings.earthTilt = 369000
    /\ settings.textureRotation = 15700
    /\ pipCamera.up = normalize(updateLocationMarker(settings).position)
    /\ pipCamera.up # normalize(updateLocationMarker(defaultSettings).position)

\* C4.  The marker's position has magnitude EARTH_RADIUS * 1.02 and the
\* direction of the rotated surface normal.
MarkerOnOffsetSphere ==
    /\ IsUnitDir(locationMarker.position)
    /\ length(locationMarker.position) = EARTH_RADIUS * 102 * (LenUnit \div 100)
    /\ [locationMarker.position EXCEPT !.len = LenUnit]
           = normalize(applyMatrix4(spherePosition(settings), rotationMatrix(settings)))

\* the marker after a view update at a tilted, rotated orientation
MarkerOnOffsetSphereWitness ==
    /\ lastEvent = "input"
    /\ settings.latitude = -531301
    /\ settings.earthTilt = -369000
    /\ settings.textureRotation = 15700
    /\ length(locationMarker.position) = 64984200
    /\ locationMarker.position.y # 0

\* C5.  With PIP enabled the PIP camera is at surfaceNormal * (EARTH_RADIUS +
\* pipHeight), on the marker's side of the planet, also for a negative
\* pipHeight.
CameraAtHeight ==
    settings.pipEnabled
    => /\ IsUnitDir(pipCamera.position)
       /\ length(pipCamera.position) = EARTH_RADIUS * LenUnit + settings.pipHeight
       /\ [pipCamera.position EXCEPT !.len = LenUnit] = normalize(locationMarker.position)

\* a frame with the camera 2 km below the surface
CameraBelowSurfaceWitness ==
    /\ lastEvent = "animate"
    /\ settings.pipEnabled
    /\ settings.pipHeight = -2 * LenUnit
    /\ length(pipCamera.position) = (EARTH_RADIUS - 2) * LenUnit
    /\ [pipCamera.position EXCEPT !.len = LenUnit] = locationMarker.up

\* C6.  Pole safety: the reference axis chosen for a surface normal is never
\* parallel to it, so the east and north vectors are unit vectors, not zero.
ReferenceNotParallel ==
    LET defined(east, north) ==
            /\ ~IsZero(east)
            /\ IsUnitDir(east)
            /\ ~IsZero(north)
    IN  defined(eastVector(normalize(locationMarker.position)),
                northVector(normalize(locationMarker.position)))

\* a frame at the north pole of an untilted planet, where the normal is the
\* Y axis and the reference axis is X
PoleWitness ==
    /\ lastEvent = "animate"
    /\ settings.latitude = 90 * DegUnit
    /\ settings.earthTilt = 0
    /\ locationMarker.up = AxisY
    /\ referenceVector(locationMarker.up) = AxisX
    /\ ~IsZero(eastVector(locationMarker.up))

TangentBasisPerpendicular ==
    LET perpendicular(n, east, north, tangent, view) ==
            /\ Dot3(east, n) = 0
            /\ Dot3(north, n) = 0
            /\ Dot3(east, north) = 0
            /\ ~IsZero(tangent)
            /\ Dot3(tangent, n) = 0
            /\ ~IsZero(view)
            /\ Dot3(view, n) = 0
    IN  perpendicular(normalize(locationMarker.position),
                      eastVector(normalize(locationMarker.position)),
                      northVector(normalize(locationMarker.position)),
                      tangentDirection(normalize(locationMarker.position),
                                       totalRotation(settings)),
                      pipCamera.arrow)

\* a frame at a tilted orientation with a heading that is no quarter turn
TangentBasisWitness ==
    /\ lastEvent = "animate"
    /\ settings.latitude = 356833
    /\ settings.longitude = 543167
    /\ settings.earthTilt = 235000
    /\ settings.pipRotation = 6400
    /\ pipCamera.arrow.x # 0
    /\ pipCamera.arrow.y # 0
    /\ pipCamera.arrow.z # 0
    /\ Dot3(pipCamera.arrow, pipCamera.up) = 0

\* C9.  settings.pipTilt lies within [10, 170] degrees.
PipTiltInRange ==
    /\ settings.pipTilt >= 10 * DegUnit
    /\ settings.pipTilt <= 170 * DegUnit

\* a drag has moved the tilt down to its lower limit
PipTiltAtLimitWitness ==
    /\ isDragging
    /\ tiltAngle = 10 * DegUnit
    /\ settings.pipTilt = 10 * DegUnit
    /\ pipCamera.target.direction.tiltFactor = TrigDeg(10 * DegUnit).s

\* C10.  settings.pipFov lies within [20, 120] and the PIP camera's fov is
\* settings.pipFov.
PipFovInRange ==
    /\ settings.pipFov >= 20 * FovUnit
    /\ settings.pipFov <= 120 * FovUnit
    /\ pipCamera.fov = settings.pipFov

\* the wheel and the keys have set the fov, and a wheel event at 118 has
\* stopped at the upper limit
PipFovAtLimitWitness ==
    /\ settings.pipFov = 120 * FovUnit
    /\ pipCamera.fov = 120 * FovUnit
    /\ settings.pipHeight = -2 * LenUnit
    /\ isDragging
    /\ ~settings.pipEnabled


TimeOfDayBelow24 ==
    /\ settings.timeOfDay >= 0
    /\ settings.timeOfDay < 24 * HourUnit


\* C13: the look direction is cos(tilt) * view direction + sin(tilt) * normal
\* of two perpendicular unit directions, a sum of length 1 that normalize()
\* leaves as it is, so its component along the normal is sin(tilt).  At a
\* tilt of 90 degrees it is the normal alone, at 10 degrees the normal
\* component is below 0.2, and the tilt 180 - t gives the same normal
\* component with the tangential one reversed.
TiltBlend ==
    LET blend(look, mirrored) ==
            /\ look.tangent = pipCamera.arrow
            /\ look.normal = pipCamera.up
            /\ HasUnitDirection(look.tangent) /\ look.tangent.len = LenUnit
            /\ HasUnitDirection(look.normal) /\ look.normal.len = LenUnit
            /\ Dot3(look.tangent, look.normal) = 0
            /\ look.planeFactor * look.planeFactor + look.tiltFactor * look.tiltFactor
                   = look.d * look.d
            /\ settings.pipTilt = 90 * DegUnit =>
                   look.planeFactor = 0 /\ look.tiltFactor = look.d
            /\ settings.pipTilt = 10 * DegUnit =>
                   5 * look.tiltFactor < look.d /\ look.planeFactor > 0
            /\ mirrored.tiltFactor * look.d = look.tiltFactor * mirrored.d
            /\ mirrored.planeFactor * look.d = -look.planeFactor * mirrored.d
            /\ mirrored.tangent = look.tangent /\ mirrored.normal = look.normal
    IN  settings.pipEnabled =>
            blend(pipCamera.target.direction,
                  lookDirection(pipCamera.arrow, pipCamera.up,
                                180 * DegUnit - settings.pipTilt))

\* a frame of a camera tilted by 170 degrees away from the poles
TiltBlendWitness ==
    /\ lastEvent = "animate"
    /\ settings.pipEnabled
    /\ settings.pipTilt = 170 * DegUnit
    /\ pipCamera.target.direction.planeFactor < 0
    /\ settings.latitude = 356833


\* C14: the view direction and the look target depend on timeOfDay and
\* pipRotation only through 2 pi * timeOfDay / 24 + pipRotation: with the
\* location, the orientation and the tilt of the current state, advancing
\* timeOfDay by 6 hours gives the camera that adding pi / 2 to pipRotation
\* gives, and 12 hours the camera that pi gives.
HeadingIsSum ==
    LET same(a, b) == a.arrow = b.arrow /\ a.target = b.target /\ a = b
        later(hours) ==
            updatePictureInPicture([settings EXCEPT !.timeOfDay = @ + hours * HourUnit],
                                   locationMarker, pipCamera)
        turned(angle) ==
            updatePictureInPicture([settings EXCEPT !.pipRotation = @ + angle],
                                   locationMarker, pipCamera)
    IN  settings.pipEnabled /\ settings.timeOfDay <= 12 * HourUnit =>
            /\ same(later(6), turned(Pi \div 2))
            /\ same(later(12), turned(Pi))

\* a frame with a rotation by the user, where six hours more turn the view
HeadingIsSumWitness ==
    /\ lastEvent = "animate"
    /\ settings.pipEnabled
    /\ settings.pipRotation # 0
    /\ settings.timeOfDay = 6 * HourUnit
    /\ updatePictureInPicture([settings EXCEPT !.timeOfDay = @ + 6 * HourUnit],
                               locationMarker, pipCamera).arrow # pipCamera.arrow


\* C15: a click whose ray does not intersect the planet leaves latitude,
\* longitude, selectedLocation and the marker as they were (and the handler
\* returns normally: the step exists).
MissChangesNothing ==
    [][lastEvent' = "miss" =>
           /\ settings'.latitude = settings.latitude
           /\ settings'.longitude = settings.longitude
           /\ settings'.selectedLocation = settings.selectedLocation
           /\ locationMarker' = locationMarker]_vars

\* a click beside the planet while a catalogue location is selected
MissWitness ==
    /\ lastEvent = "miss"
    /\ settings.selectedLocation = "Sydney"
    /\ settings.latitude = -338688


\* C16: after a successful pick selectedLocation is the name of the nearest
\* catalogue location among those within 2 degrees of the picked point in
\* latitude and in longitude, and "Custom" when there is none.  (No two
\* catalogue locations are within 2 degrees of one point, so the first one
\* found is the nearest one.)
NearestSelected ==
    LET Within(i) ==
            /\ Abs(locations[i].latitude - settings.latitude) < 2 * DegUnit
            /\ Abs(locations[i].longitude - settings.longitude) < 2 * DegUnit
        Distance2(i) ==
            (locations[i].latitude - settings.latitude)
                    * (locations[i].latitude - settings.latitude)
                + (locations[i].longitude - settings.longitude)
                    * (locations[i].longitude - settings.longitude)
        nearest(within) ==
            IF within = {} THEN settings.selectedLocation = "Custom"
            ELSE \E i \in within :
                     /\ settings.selectedLocation = locations[i].name
                     /\ \A j \in within : Distance2(i) <= Distance2(j)
    IN  /\ \A i, j \in 1..Len(locations) :
               i # j =>
                   \/ Abs(locations[i].latitude - locations[j].latitude) >= 4 * DegUnit
                   \/ Abs(locations[i].longitude - locations[j].longitude) >= 4 * DegUnit
        /\ lastEvent = "pick" => nearest({i \in 1..Len(locations) : Within(i)})

\* a pick 0.9 degrees east of Tokyo
NearestSelectedWitness ==
    /\ lastEvent = "pick"
    /\ settings.selectedLocation = "Tokyo"
    /\ settings.longitude = -1388879


\* C17: for every catalogue location, a click that hits the marker placed
\* for its coordinates under the current orientation sets latitude and
\* longitude to within 2 degrees of the catalogue's and leaves
\* selectedLocation its own name.
MarkerClickKeepsName ==
    [][\A i \in 1..Len(locations) :
           (/\ settings.latitude = locations[i].latitude
            /\ settings.longitude = locations[i].longitude
            /\ locationMarker = updateLocationMarker(settings)
            /\ lastEvent' = "pick"
            /\ onEarthClick(<< locationMarker.position >>))
           => /\ Abs(settings'.latitude - locations[i].latitude) < 2 * DegUnit
              /\ Abs(settings'.longitude - locations[i].longitude) < 2 * DegUnit
              /\ settings'.selectedLocation = locations[i].name]_vars

\* a click on Reykjavik's marker on a planet tilted by 90 degrees, after
\* which the dropdown shows Reykjavik
MarkerClickWitness ==
    /\ lastEvent = "pick"
    /\ settings.earthTilt = 90 * DegUnit
    /\ settings.textureRotation = 15700
    /\ settings.latitude = 641466
    /\ settings.longitude = 219426
    /\ settings.selectedLocation = "Reykjavik"
    /\ locationMarker = updateLocationMarker(settings)


\* C18: at every rendered frame the mesh's rotation about the polar axis is
\* textureRotation + 2 pi * timeOfDay / 24 (as an angle, up to whole turns).
MeshRotationHasHourAngle ==
    lastEvent = "animate" =>
        (earth.y - (settings.textureRotation + hourAngle(settings))) % TwoPi = 0


\* C19: a click that ends a drag is skipped: when the movement accumulated
\* between the mousedown on the canvas and the click exceeds 10 pixels, the
\* click changes neither latitude, longitude nor selectedLocation, and
\* hasDragged is false after it.
DragClickSkipped ==
    [][(/\ isDraggingOrbit
        /\ dragTotalMovement > 10
        /\ lastEvent' \in {"pick", "miss", "skipped"})
       => /\ settings'.latitude = settings.latitude
          /\ settings'.longitude = settings.longitude
          /\ settings'.selectedLocation = settings.selectedLocation
          /\ hasDragged' = FALSE]_vars

\* the click after a drag of 11 pixels has been skipped
DragClickSkippedWitness ==
    /\ lastEvent = "skipped"
    /\ dragTotalMovement = 11
    /\ ~isDraggingOrbit
    /\ ~hasDragged


\* C20: the W key never lowers and the S key never raises the surface
\* camera: whatever pipHeight is, it is no lower after W and no higher
\* after S.
HeightKeysMonotone ==
    [][/\ (settings.pipEnabled /\ keyDown("w")) =>
              settings'.pipHeight >= settings.pipHeight
       /\ (settings.pipEnabled /\ keyDown("s")) =>
              settings'.pipHeight <= settings.pipHeight]_vars


\* C21: in every reachable state settings.pipHeight lies within the range of
\* its slider, [-2, 5] km.
PipHeightInRange ==
    /\ settings.pipHeight >= -2 * LenUnit
    /\ settings.pipHeight <= 5 * LenUnit


\* C22: once the selection carries the name of a catalogue location, a change
\* of timeOfDay, textureRotation or earthTilt that changes neither latitude
\* nor longitude leaves selectedLocation as it was.
ViewChangeKeepsSelection ==
    [][(/\ settings.selectedLocation \in CatalogueNames
        /\ \/ settings'.timeOfDay # settings.timeOfDay
           \/ settings'.textureRotation # settings.textureRotation
           \/ settings'.earthTilt # settings.earthTilt
        /\ settings'.latitude = settings.latitude
        /\ settings'.longitude = settings.longitude)
       => settings'.selectedLocation = settings.selectedLocation]_vars


\* C23: whenever selectedLocation is the name of a catalogue location, the
\* latitude and the longitude are each within 2 degrees of that location's.
SelectedLocationIsNear ==
    \A i \in 1..Len(locations) :
        settings.selectedLocation = locations[i].name =>
            /\ Abs(settings.latitude - locations[i].latitude) <= 2 * DegUnit
            /\ Abs(settings.longitude - locations[i].longitude) <= 2 * DegUnit


\* C24: a click is never suppressed by a drag flag left over from an earlier
\* interaction: a mousedown on the canvas clears hasDragged and the movement
\* total, and the click that follows a mousedown with an accumulated
\* movement of at most 10 is not skipped, whatever came before.
ClickAfterOwnPress ==
    [][/\ (~isDraggingOrbit /\ isDraggingOrbit') =>
              (~hasDragged' /\ dragTotalMovement' = 0)
       /\ (/\ isDraggingOrbit
           /\ dragTotalMovement <= 10
           /\ lastEvent' \in {"pick", "miss", "skipped"})
          => (~hasDragged /\ lastEvent' \in {"pick", "miss"})]_vars

\* a pick by a click whose press was followed by exactly 10 pixels of
\* movement
ClickAfterOwnPressWitness ==
    /\ lastEvent = "pick"
    /\ dragTotalMovement = 10
    /\ ~isDraggingOrbit
    /\ ~hasDragged
    /\ settings.longitude = 900000


\* C25: selecting a catalogue location in the dropdown sets latitude and
\* longitude to exactly the catalogue's values, and selectedLocation is that
\* location's name once the handler's updateView has finished.  (The steps
\* of the handler are looked for among those of an input that end with the
\* name or with "Custom", the two values updateView can leave.)
DropdownKeepsName ==
    [][\A i \in 1..Len(locations) :
           (/\ lastEvent' = "input"
            /\ settings'.selectedLocation \in {locations[i].name, "Custom"}
            /\ settings'.timeOfDay = settings.timeOfDay
            /\ selectLocation(locations[i].name)) =>
               /\ settings'.latitude = locations[i].latitude
               /\ settings'.longitude = locations[i].longitude
               /\ settings'.selectedLocation = locations[i].name
               /\ locationMarker' = updateLocationMarker(settings')]_vars

\* Cape Town selected in the dropdown with the time slider at its end
DropdownKeepsNameWitness ==
    /\ lastEvent = "input"
    /\ settings.selectedLocation = "Cape Town"
    /\ settings.latitude = -339249
    /\ settings.longitude = -184241
    /\ settings.timeOfDay = 24 * HourUnit

====
